---- MODULE Spec2Model ----
(***************************************************************************)
(* Model of the landing page's state-bearing mechanisms:                   *)
(*   - the chat playback of ComparisonSection (unnamed/part_000), driven   *)
(*     by its local intersection hook and by setTimeout chains;            *)
(*   - the shared useIntersectionObserver hook used by the About, FAQ and  *)
(*     Footer sections (src/App.js and unnamed/part_000);                  *)
(*   - the theme flag persisted in localStorage (App);                     *)
(*   - the two lead forms: the plan-selection modal (src/App.js) and the   *)
(*     hero contact form (unnamed/part_000).                               *)
(* Time advances in steps of 100 ms, the greatest common divisor of all    *)
(* the delays the code passes to setTimeout.                               *)
(***************************************************************************)
EXTENDS Integers, Sequences, FiniteSets, TLC

VARIABLES
    messages,           \* the script (module constant `messages`)
    mounted,            \* the ComparisonSection instance is mounted
    entry,              \* hook state `entry`: <<>> (null) or <<isIntersecting>> of the last entry
    observing,          \* number of watchers of the local hook attached to the section
    hasBeenVisibleRef,  \* hasBeenVisibleRef.current
    visibleMessages,    \* state visibleMessages
    typingIndex,        \* state typingIndex
    timers,             \* pending setTimeout callbacks, in scheduling order
    runs,               \* closure variables of every startChatAnimation call
    isVisible,          \* shared hook: isVisible of each section
    hookObserving,      \* shared hook: number of watchers attached to each section
    isDarkMode,         \* App state isDarkMode
    open,               \* AboutSection state open
    appMounted,         \* the App (and with it every section) is mounted
    clock,              \* ms elapsed since the first state
    refNode,            \* local hook: last argument of the ref callback ("never", "node", "null")
    hookBound,          \* shared hook: targetRef.current is an element, per section
    theme,              \* localStorage item 'theme'
    savedMode,          \* the value the isDarkMode initializer read
    isModalOpen,        \* App state isModalOpen
    selectedPlan,       \* App state selectedPlan (name of the plan or "null")
    formData,           \* App state formData
    isSubmitting,       \* App state isSubmitting
    submitSuccess,      \* App state submitSuccess
    modalRequests,      \* bodies of the modal form's requests in flight
    email,              \* HeroSection state email
    status,             \* HeroSection state status
    isLoading,          \* HeroSection state isLoading
    showInput,          \* HeroSection state showInput
    heroRequests        \* bodies of the hero form's requests in flight

chatVars == <<messages, mounted, entry, observing, hasBeenVisibleRef,
              visibleMessages, typingIndex, timers, runs, clock, refNode>>
hookVars == <<isVisible, hookObserving, isDarkMode, open, appMounted, hookBound>>
themeVars == <<theme, savedMode>>
modalVars == <<isModalOpen, selectedPlan, formData, isSubmitting, submitSuccess,
               modalRequests>>
heroVars == <<email, status, isLoading, showInput, heroRequests>>
chatRest == <<hookVars, themeVars, modalVars, heroVars>>
vars == <<messages, mounted, entry, observing, hasBeenVisibleRef,
          visibleMessages, typingIndex, timers, runs,
          isVisible, hookObserving, isDarkMode, open, appMounted,
          clock, refNode, hookBound, theme, savedMode,
          isModalOpen, selectedPlan, formData, isSubmitting, submitSuccess,
          modalRequests, email, status, isLoading, showInput, heroRequests>>

----------------------------------------------------------------------------
(* Bounds *)
MaxLen == 3
MaxRuns == 2

MaxInFlight == 2

(* Delays of the source, in ms *)
SettleDelay == 1000
InitDelay == 300
TypingDelay == 700
CustomerDelay == 500
GapDelay == 700

----------------------------------------------------------------------------
(* The script *)
MessageTypes == {"ai", "customer"}

\* A message is identified by its text; the text of the message at position i
\* is modelled by i (all texts of a script are distinct).
Message(t, i) == [type |-> t, text |-> i]

NoMsg == [type |-> "none", text |-> 0]

Scripts ==
    UNION {{[i \in 1..n |-> Message(f[i], i)] : f \in [1..n -> MessageTypes]} : n \in 0..MaxLen}

\* JavaScript indexes from 0
At(s, i) == s[i + 1]

IsPrefix(p, s) == Len(p) <= Len(s) /\ \A i \in 1..Len(p) : p[i] = s[i]

----------------------------------------------------------------------------
(* Timers *)
Timer(k, r, d, m) == [kind |-> k, run |-> r, left |-> d, msg |-> m]

setTimeout(ts, k, r, d, m) == Append(ts, Timer(k, r, d, m))

RemoveAt(ts, i) == [j \in 1..(Len(ts) - 1) |-> IF j < i THEN ts[j] ELSE ts[j + 1]]

RECURSIVE clearKind(_, _)
clearKind(ts, k) ==
    IF ts = <<>> THEN <<>>
    ELSE IF Head(ts).kind = k THEN clearKind(Tail(ts), k)
         ELSE <<Head(ts)>> \o clearKind(Tail(ts), k)

\* The timer the event loop runs next: the earliest scheduled among the due ones
IsNextDue(ts, i) ==
    /\ i \in 1..Len(ts)
    /\ ts[i].left = 0
    /\ \A j \in 1..(i - 1) : ts[j].left # 0

PendingOf(ts, r) == {i \in 1..Len(ts) : ts[i].run = r}

HasKind(ts, k) == \E i \in 1..Len(ts) : ts[i].kind = k

----------------------------------------------------------------------------
(* The shared hook useIntersectionObserver and the sections that call it *)
Sections == {"about", "faq", "footer"}

\* observer.observe(currentTarget): one more watcher attached to the element
observe(n) == n + 1

\* observer.unobserve(currentTarget) / observer.disconnect() of the watcher of
\* the effect run that is cleaned up
unobserve(n) == IF n > 0 THEN n - 1 ELSE 0

\* Variant: the state follows every entry, setIsVisible(entry.isIntersecting)
setIsVisibleFollowsEntry(prev, b) == b

\* if (entry.isIntersecting) setIsVisible(true)
setIsVisible(prev, b) == IF b THEN TRUE ELSE prev

\* if (entry.isIntersecting) observer.disconnect()
disconnectOnFirst(n, b) == IF b THEN unobserve(n) ELSE n

\* Variant: the effect returns no clean-up
EffectRerunNoCleanup(n) == observe(n)

\* A render passes a fresh options object, so the effect runs again: the
\* clean-up of the previous run, then a new watcher on the bound element
EffectRerun(n) == observe(unobserve(n))

\* Variant: the effect and its clean-up without their if (currentTarget)
HasTargetUnchecked(bound) == TRUE

\* if (currentTarget), in the effect and in its clean-up
HasTarget(bound) == bound

\* The effect runs again when targetRef.current was an element or not at the
\* previous run (was) and is one or not now (now)
EffectCommit(was, now, n) ==
    IF HasTarget(was) /\ HasTarget(now) THEN EffectRerun(n)
    ELSE IF HasTarget(was) THEN unobserve(n)
    ELSE IF HasTarget(now) THEN observe(n)
    ELSE n

----------------------------------------------------------------------------
(* ComparisonSection *)
\* entry?.isIntersecting || false
IsIntersecting(e) == e # <<>> /\ e[1]

comparisonVisible == IsIntersecting(entry)

\* ([entry]) => setEntry(entry)
setEntry(prev, b) == <<b>>

\* Variant: the callback disconnects on the first intersecting entry, as the
\* shared hook does
CallbackObservingDisconnects(n, b) == IF b THEN 0 ELSE n

\* the local hook's callback never disconnects its watcher
CallbackObserving(n, b) == n

\* The ref callback of the local hook: the previous watcher is disconnected,
\* a new one is created and observes the node when there is one
refCallback(n, node) == IF node THEN observe(0) ELSE 0

\* useState initial value of formData
EmptyForm == [name |-> "", email |-> "", mobile |-> "", plan |-> ""]

\* closure of one startChatAnimation call
NewRun == [index |-> 0, isCancelled |-> FALSE]

\* The state after the first render and its effects, with no stored theme
\* (light mode); the script ranges over every script of bounded length
InitState ==
    /\ mounted = TRUE
    /\ entry = <<>>
    /\ hasBeenVisibleRef = FALSE
    /\ visibleMessages = <<>>
    /\ typingIndex = -1
    /\ timers = <<>>
    /\ runs = <<>>
    /\ isVisible = [s \in Sections |-> FALSE]
    /\ open = FALSE
    /\ appMounted = TRUE
    /\ clock = 0
    /\ isModalOpen = FALSE
    /\ selectedPlan = "null"
    /\ formData = EmptyForm
    /\ isSubmitting = FALSE
    /\ submitSuccess = ""
    /\ modalRequests = <<>>
    /\ email = ""
    /\ status = ""
    /\ isLoading = FALSE
    /\ showInput = FALSE
    /\ heroRequests = <<>>

\* The page as written: every trigger has its element, observed since mount
InitBound ==
    /\ refNode = "node"
    /\ observing = refCallback(0, TRUE)
    /\ hookBound = [s \in Sections |-> TRUE]
    /\ hookObserving = [s \in Sections |-> EffectCommit(FALSE, TRUE, 0)]

InitComponents == InitState /\ InitBound

\* Variant: every stored value but 'light' starts in dark mode
InitialModeNotLight(saved) == saved # "light"

\* useState initializer of isDarkMode: savedMode === 'dark'
InitialMode(saved) == saved = "dark"

\* Variant: the theme effect without the setItem of its else-branch
PersistThemeDarkOnly(mode, stored) == IF mode THEN "dark" ELSE stored

\* The theme effect: localStorage.setItem('theme', ...) after mount and after
\* every change of isDarkMode
PersistTheme(mode, stored) == IF mode THEN "dark" ELSE "light"

\* What localStorage can hold under 'theme' when the page loads: nothing, one
\* of the two values the page writes, or anything else
StoredValues == {"absent", "dark", "light", "other"}

\* The theme state after the first render and its effect, given the stored value
StartTheme(stored) ==
    /\ savedMode = stored
    /\ isDarkMode = InitialMode(stored)
    /\ theme = PersistTheme(InitialMode(stored), stored)

InitRest == InitComponents /\ StartTheme("absent")

Init == messages \in Scripts /\ InitRest

\* The script of the source: seven messages, agent and customer alternating
SourceScript ==
    [i \in 1..7 |-> Message(IF i % 2 = 1 THEN "ai" ELSE "customer", i)]

\* The page as the source builds it, with its own script
InitPage == messages = SourceScript /\ InitRest

\* Variant: the effect without its else-branch, the flag is never cleared
EffectFlagNeverCleared(vis, flag) == IF vis /\ ~flag THEN TRUE ELSE flag

\* hasBeenVisibleRef.current after one run of the activation effect
EffectFlag(vis, flag) ==
    IF vis /\ ~flag THEN TRUE
    ELSE IF ~vis /\ flag THEN FALSE
    ELSE flag

\* Variant: the activation effect returns no clean-up
EffectTimersNoClear(vis, flag, ts) ==
    IF vis /\ ~flag
    THEN setTimeout(ts, "settle", 0, SettleDelay, NoMsg)
    ELSE ts

\* Pending timers after the clean-up of the previous run of the activation
\* effect (clearTimeout(timeout)) and the body of the new run
EffectTimers(vis, flag, ts) ==
    IF vis /\ ~flag
    THEN setTimeout(clearKind(ts, "settle"), "settle", 0, SettleDelay, NoMsg)
    ELSE clearKind(ts, "settle")

\* Variant: the activation effect without its dependency array
EffectRunsEveryRender(was, vis) == TRUE

\* The dependency array [comparisonVisible]: the effect (its clean-up first)
\* runs again only in a render in which comparisonVisible changed
EffectRuns(was, vis) == vis # was

\* The watcher's callback, the re-render it causes and the activation effect
\* (which runs only when comparisonVisible changed)
ObserverCallback(b) ==
    /\ mounted
    /\ observing > 0
    /\ entry' = setEntry(entry, b)
    /\ observing' = CallbackObserving(observing, b)
    /\ LET was == comparisonVisible
           vis == IsIntersecting(setEntry(entry, b))
       IN IF ~EffectRuns(was, vis)
          THEN UNCHANGED <<hasBeenVisibleRef, timers>>
          ELSE /\ (vis /\ ~hasBeenVisibleRef) => Len(runs) < MaxRuns
               /\ hasBeenVisibleRef' = EffectFlag(vis, hasBeenVisibleRef)
               /\ timers' = EffectTimers(vis, hasBeenVisibleRef, timers)
    /\ UNCHANGED <<messages, mounted, visibleMessages, typingIndex, runs>>
    /\ UNCHANGED <<clock, refNode>>
    /\ UNCHANGED chatRest

\* The settle timeout of the activation effect, startChatAnimation included
SettleFires ==
    \E i \in 1..Len(timers) :
        /\ IsNextDue(timers, i)
        /\ timers[i].kind = "settle"
        /\ visibleMessages' = <<>>
        /\ typingIndex' = -1
        /\ runs' = Append(runs, NewRun)
        /\ timers' = setTimeout(RemoveAt(timers, i), "show", Len(runs) + 1, InitDelay, NoMsg)
        /\ UNCHANGED <<messages, mounted, entry, observing, hasBeenVisibleRef>>
        /\ UNCHANGED <<clock, refNode>>
    /\ UNCHANGED chatRest

\* Variant: the two reveal delays exchanged
RevealDelaySwapped(msg) == IF msg.type = "ai" THEN CustomerDelay ELSE TypingDelay

\* Delay of the inner timeout: 700 ms in the agent branch, 500 ms otherwise
RevealDelay(msg) == IF msg.type = "ai" THEN TypingDelay ELSE CustomerDelay

showNextMessage ==
    \E i \in 1..Len(timers) :
        /\ IsNextDue(timers, i)
        /\ timers[i].kind = "show"
        /\ LET r == timers[i].run
               rest == RemoveAt(timers, i)
           IN IF runs[r].isCancelled \/ runs[r].index >= Len(messages)
              THEN /\ timers' = rest
                   /\ UNCHANGED typingIndex
              ELSE LET msg == At(messages, runs[r].index)
                   IN IF msg.type = "ai"
                      THEN /\ typingIndex' = runs[r].index
                           /\ timers' = setTimeout(rest, "reveal", r, RevealDelay(msg), msg)
                      ELSE /\ UNCHANGED typingIndex
                           /\ timers' = setTimeout(rest, "reveal", r, RevealDelay(msg), msg)
        /\ UNCHANGED <<messages, mounted, entry, observing, hasBeenVisibleRef,
                       visibleMessages, runs>>
        /\ UNCHANGED <<clock, refNode>>
    /\ UNCHANGED chatRest

\* Variant: the agent branch without setTypingIndex(-1)
RevealTypingKept(msg, t) == t

\* typingIndex after the inner timeout: only the agent branch clears it
RevealTyping(msg, t) == IF msg.type = "ai" THEN -1 ELSE t

\* The inner timeout of showNextMessage (both branches)
RevealFires ==
    \E i \in 1..Len(timers) :
        /\ IsNextDue(timers, i)
        /\ timers[i].kind = "reveal"
        /\ LET r == timers[i].run
               msg == timers[i].msg
               rest == RemoveAt(timers, i)
           IN IF runs[r].isCancelled
              THEN /\ timers' = rest
                   /\ UNCHANGED <<visibleMessages, typingIndex, runs>>
              ELSE /\ visibleMessages' = Append(visibleMessages, msg)
                   /\ typingIndex' = RevealTyping(msg, typingIndex)
                   /\ runs' = [runs EXCEPT ![r].index = @ + 1]
                   /\ timers' = setTimeout(rest, "show", r, GapDelay, NoMsg)
        /\ UNCHANGED <<messages, mounted, entry, observing, hasBeenVisibleRef>>
        /\ UNCHANGED <<clock, refNode>>
    /\ UNCHANGED chatRest

\* 100 ms pass; a due timer runs before time advances
TickTimers ==
    /\ timers # <<>>
    /\ \A i \in 1..Len(timers) : timers[i].left > 0
    /\ timers' = [i \in 1..Len(timers) |-> [timers[i] EXCEPT !.left = @ - 100]]
    /\ UNCHANGED <<messages, mounted, entry, observing, hasBeenVisibleRef,
                   visibleMessages, typingIndex, runs, refNode>>
    /\ UNCHANGED chatRest

Tick == TickTimers /\ UNCHANGED clock

\* Unmount: the activation effect's clean-up and the ref callback with null
Unmount ==
    /\ mounted
    /\ mounted' = FALSE
    /\ timers' = clearKind(timers, "settle")
    /\ observing' = IF refNode = "never" THEN observing
                    ELSE refCallback(observing, FALSE)
    /\ refNode' = IF refNode = "never" THEN "never" ELSE "null"
    /\ UNCHANGED <<messages, entry, hasBeenVisibleRef, visibleMessages, typingIndex, runs>>
    /\ UNCHANGED clock
    /\ UNCHANGED chatRest

Next ==
    \/ \E b \in BOOLEAN : ObserverCallback(b)
    \/ SettleFires
    \/ showNextMessage
    \/ RevealFires
    \/ Tick
    \/ Unmount

Spec == Init /\ [][Next]_vars

----------------------------------------------------------------------------
(* Properties of the chat playback (specification Spec) *)

SettleCount == Cardinality({i \in 1..Len(timers) : timers[i].kind = "settle"})

\* A run has finished: its index reached the end and none of its timers is pending
Finished(rs, ts, r) == rs[r].index = Len(messages) /\ PendingOf(ts, r) = {}

\* Every timer pending after the step was pending before it (no setTimeout call)
NoTimerScheduled ==
    \A j \in 1..Len(timers') : \E i \in 1..Len(timers) :
        /\ timers[i].kind = timers'[j].kind
        /\ timers[i].run = timers'[j].run
        /\ timers'[j].left <= timers[i].left

\* C1: while the section is mounted the displayed list visibleMessages is a
\* prefix of the script, whatever the interleaving of timers and visibility changes.
C1_PrefixOfScript == mounted => IsPrefix(visibleMessages, messages)

\* C2 (as stated): once set the has-played flag is never cleared while the
\* section is mounted, and after the first run no step starts another run or
\* clears visibleMessages for a restart.
C2_StartedAtMostOnce ==
    [][/\ (mounted /\ hasBeenVisibleRef) => hasBeenVisibleRef'
       /\ Len(runs) >= 1 => Len(runs') = Len(runs)]_vars

\* C2 (amended): playback starts at most once per period of visibility. The
\* has-played flag always equals the host's current visibility, at most one
\* settle timer is pending and only while the host is visible and mounted, a
\* settle timer is scheduled only by the step that sets the flag, and a run
\* starts only in the step that consumes the settle timer of a visible host.
C2_OncePerVisiblePeriod ==
    /\ [](hasBeenVisibleRef = comparisonVisible)
    /\ [](SettleCount <= 1 /\ (SettleCount = 1 => (mounted /\ comparisonVisible)))
    /\ [][SettleCount' > SettleCount => (~hasBeenVisibleRef /\ hasBeenVisibleRef')]_vars
    /\ [][Len(runs') > Len(runs) =>
            /\ Len(runs') = Len(runs) + 1
            /\ SettleCount = 1 /\ SettleCount' = 0
            /\ hasBeenVisibleRef /\ hasBeenVisibleRef'
            /\ visibleMessages' = <<>>]_vars

\* C2 witness: a second run has been started on a mounted section
C2_Witness == mounted /\ Len(runs) = 2 /\ hasBeenVisibleRef

\* C3: after the unmount no timer callback writes visibleMessages or
\* typingIndex and no further timer is scheduled.
C3_NoWriteAfterUnmount ==
    [][~mounted => /\ visibleMessages' = visibleMessages
                   /\ typingIndex' = typingIndex
                   /\ NoTimerScheduled]_vars

\* C4: startChatAnimation is never invoked while an earlier run still has a
\* pending timer.
C4_SingleChain ==
    [][Len(runs') > Len(runs) => \A r \in 1..Len(runs) : PendingOf(timers, r) = {}]_vars

\* C5: in the step in which a run finishes (its index has reached the length
\* of the script and its last timer is consumed) visibleMessages equals the script.
C5_CompleteEqualsScript ==
    [][\A r \in 1..Len(runs) :
          (~Finished(runs, timers, r) /\ Finished(runs', timers', r))
              => visibleMessages' = messages]_vars

\* C6: whenever typingIndex is set it equals the length of visibleMessages and
\* the script entry at that index is an agent message.
C6_TypingIsNextAgent ==
    typingIndex # -1 =>
        /\ typingIndex = Len(visibleMessages)
        /\ typingIndex < Len(messages)
        /\ At(messages, typingIndex).type = "ai"

\* Playback is under way: a run was started and not every message is revealed
Playing == runs # <<>> /\ Len(visibleMessages) < Len(messages)

\* C7 (as stated): during playback the typing indicator is set if and only if
\* the script message at position len(visibleMessages) is an agent message.
C7_TypingIffAgentNext ==
    Playing => ((typingIndex # -1) <=> (At(messages, Len(visibleMessages)).type = "ai"))

\* A reveal timer of an agent message at index k is pending
AgentRevealPending(ts, rs, k) ==
    \E i \in 1..Len(ts) :
        /\ ts[i].kind = "reveal"
        /\ ts[i].msg.type = "ai"
        /\ rs[ts[i].run].index = k

\* C7 (amended): the typing indicator is set only during a 700 ms typing wait:
\* whenever typingIndex is set, the reveal timer of the agent message at that
\* index is pending, and typingIndex is set to k only by the step that
\* schedules that timer with the typing delay, never by a step that starts the
\* 300 ms initial delay or the 700 ms gap after a message.
C7_TypingOnlyDuringTypingWait ==
    /\ [](typingIndex # -1 => AgentRevealPending(timers, runs, typingIndex))
    /\ [][(typingIndex' # -1 /\ typingIndex' # typingIndex) =>
            \E i \in 1..Len(timers') :
                /\ timers'[i].kind = "reveal"
                /\ timers'[i].msg.type = "ai"
                /\ timers'[i].left = TypingDelay
                /\ runs'[timers'[i].run].index = typingIndex']_vars

\* C7 witness: the gap before an agent message that is not the first one: a
\* message is revealed, the next one is an agent message, the indicator is off
C7_Witness ==
    /\ Len(runs) = 1
    /\ Len(visibleMessages) >= 1
    /\ Len(visibleMessages) < Len(messages)
    /\ At(messages, Len(visibleMessages)).type = "ai"
    /\ typingIndex = -1
    /\ \E i \in 1..Len(timers) : timers[i].kind = "show"

\* C8 (as stated): the visibility that gates the chat section never returns to
\* false once it was true.
C8_StaysVisible == [][comparisonVisible => comparisonVisible']_vars

\* C8 (amended): comparisonVisible is the isIntersecting of the latest
\* notification (false before the first): every callback sets it to the value
\* delivered, also back to false, and the watcher stays attached as long as
\* the section is mounted.
C8_FollowsLatestEntry ==
    /\ [](mounted => observing = 1)
    /\ [](entry = <<>> => ~comparisonVisible)
    /\ [][\A b \in BOOLEAN : ObserverCallback(b) => comparisonVisible' = b]_vars

\* C8 witness: the section was visible long enough to start a run, is not
\* visible any more and is still watched
C8_Witness == mounted /\ runs # <<>> /\ ~comparisonVisible /\ observing = 1

\* C12: running the activation path again (another intersecting notification
\* and the render it causes) while the host is visible and the has-played flag
\* is set changes neither visibleMessages nor typingIndex, starts no run and
\* neither schedules nor cancels a timer.
C12_ReactivationIsNoOp ==
    [][(comparisonVisible /\ hasBeenVisibleRef /\ ObserverCallback(TRUE)) =>
          /\ visibleMessages' = visibleMessages
          /\ typingIndex' = typingIndex
          /\ timers' = timers
          /\ runs' = runs
          /\ hasBeenVisibleRef']_vars

\* C12 witness: the flag is set, the host is visible and watched, and the
\* settle timer of the first activation is still pending
C12_Witness ==
    /\ mounted /\ observing > 0
    /\ comparisonVisible /\ hasBeenVisibleRef
    /\ SettleCount = 1

\* A reveal timer of a customer message is pending
CustomerRevealPending(ts) ==
    \E i \in 1..Len(ts) : ts[i].kind = "reveal" /\ ts[i].msg.type = "customer"

\* C22: in every run an agent message is revealed in two steps (the step that
\* starts its wait sets the typing indicator to its index, a later step
\* appends it and clears the indicator), a customer message is appended in
\* one step and the indicator is unset throughout its wait, and a run has at
\* most one pending timer, so that an index is processed only after the
\* previous message was appended.
C22_TwoStepReveal ==
    /\ [][timers' # <<>> =>
            LET t == timers'[Len(timers')]
            IN (t.kind = "reveal" /\ t.msg.type = "ai"
                    /\ t \notin {timers[j] : j \in 1..Len(timers)}
                    /\ t.left = TypingDelay)
               => typingIndex' = runs[t.run].index]_vars
    /\ [][(Len(visibleMessages') = Len(visibleMessages) + 1
            /\ visibleMessages'[Len(visibleMessages')].type = "ai")
          => typingIndex' = -1]_vars
    /\ [](CustomerRevealPending(timers) => typingIndex = -1)
    /\ [](\A r \in 1..Len(runs) : Cardinality(PendingOf(timers, r)) <= 1)

\* C24: a start is pending only while the host is mounted and visible (a
\* step that ends visibility cancels it); it is armed with the whole settle
\* delay by the step that makes the host visible; a run starts, and
\* visibleMessages is cleared, only by the step in which that timer fires
\* with the host still visible.
C24_CancelledStart ==
    /\ [](SettleCount > 0 => (mounted /\ comparisonVisible /\ SettleCount = 1))
    /\ [][SettleCount' > SettleCount =>
            /\ ~comparisonVisible /\ comparisonVisible'
            /\ timers'[Len(timers')].kind = "settle"
            /\ timers'[Len(timers')].left = SettleDelay]_vars
    /\ [][Len(runs') > Len(runs) =>
            /\ comparisonVisible
            /\ SettleCount = 1 /\ SettleCount' = 0
            /\ \E i \in 1..Len(timers) : timers[i].kind = "settle" /\ timers[i].left = 0]_vars
    /\ [][(visibleMessages # <<>> /\ visibleMessages' = <<>>) => Len(runs') > Len(runs)]_vars

\* C24 witness: the host left the viewport while the first run plays; no
\* start is pending and the flag is cleared, so a new visit arms a new delay
C24_Witness ==
    /\ mounted /\ Len(runs) = 1 /\ PendingOf(timers, 1) # {}
    /\ entry = <<FALSE>> /\ ~hasBeenVisibleRef
    /\ SettleCount = 0

----------------------------------------------------------------------------
(* Playback under fair timers (specification SpecLive) *)

\* Every pending timeout eventually runs and time keeps passing
TimersFair ==
    /\ WF_vars(SettleFires)
    /\ WF_vars(showNextMessage)
    /\ WF_vars(RevealFires)
    /\ WF_vars(Tick)

SpecLive == Init /\ [][Next]_vars /\ TimersFair

\* C21: once the settle timeout has run (the section was visible and mounted
\* through the settle delay), playback eventually reaches the terminal state:
\* visibleMessages is the whole script, the typing indicator is cleared and
\* no timer is pending.
C21_EventuallyDone ==
    (runs # <<>>) ~> (visibleMessages = messages /\ typingIndex = -1 /\ timers = <<>>)

----------------------------------------------------------------------------
(* Timed scenario: the host becomes visible at t = 0 and stays mounted and  *)
(* visible; the clock counts the ms that have passed                        *)

TickClock == TickTimers /\ clock' = clock + 100

\* The first intersecting notification arrives at t = 0; later ones repeat it
VisibleAtZero == (entry = <<>> => clock = 0) /\ ObserverCallback(TRUE)

NextTimed ==
    \/ VisibleAtZero
    \/ SettleFires
    \/ showNextMessage
    \/ RevealFires
    \/ TickClock

SpecTimed == Init /\ [][NextTimed]_vars

\* The script of the scenario: agent "Hi", customer "Q1", agent "A1"
ScenarioScript == <<Message("ai", 1), Message("customer", 2), Message("ai", 3)>>

\* No timer is due: every callback of the current instant has run
Settled == \A i \in 1..Len(timers) : timers[i].left > 0

\* C11 (as stated): with the scenario script and the host visible from t = 0
\* the typing indicator first appears at 1000 ms, "Hi" is appended at 1700 ms
\* and "Q1" at 2400 ms.
C11_TimelineAsStated ==
    (messages = ScenarioScript /\ entry # <<>> /\ Settled) =>
        /\ (typingIndex = 0) <=> (clock >= 1000 /\ clock < 1700)
        /\ (Len(visibleMessages) >= 1) <=> (clock >= 1700)
        /\ (Len(visibleMessages) >= 2) <=> (clock >= 2400)

\* C11 (amended): the typing indicator first appears at 1300 ms (1000 ms
\* settle delay + 300 ms initial delay), "Hi" is appended at 2000 ms, "Q1" at
\* 3200 ms (700 ms gap + 500 ms customer delay), the typing indicator for "A1"
\* appears at 3900 ms and "A1" is appended at 4600 ms; the list then equals
\* the script.
C11_Timeline ==
    (messages = ScenarioScript /\ entry # <<>> /\ Settled) =>
        /\ (typingIndex = 0) <=> (clock >= 1300 /\ clock < 2000)
        /\ (Len(visibleMessages) >= 1) <=> (clock >= 2000)
        /\ (Len(visibleMessages) >= 2) <=> (clock >= 3200)
        /\ (typingIndex = 2) <=> (clock >= 3900 /\ clock < 4600)
        /\ (Len(visibleMessages) >= 3) <=> (clock >= 4600)
        /\ typingIndex \in {-1, 0, 2}
        /\ IsPrefix(visibleMessages, messages)

\* C11 witness: "A1" has just been appended, at 4600 ms
C11_Witness ==
    /\ messages = ScenarioScript
    /\ visibleMessages = ScenarioScript
    /\ typingIndex = -1
    /\ clock = 4600

----------------------------------------------------------------------------
(* Actions of the sections that use the shared hook *)

\* App re-renders: every section gets a fresh options object
AppRender ==
    [s \in Sections |-> EffectCommit(hookBound[s], hookBound[s], hookObserving[s])]

\* The watcher's callback of section s; a state change re-renders the section
HookCallback(s, b) ==
    /\ appMounted
    /\ hookObserving[s] > 0
    /\ isVisible' = [isVisible EXCEPT ![s] = setIsVisible(@, b)]
    /\ hookObserving' = [hookObserving EXCEPT ![s] =
            IF setIsVisible(isVisible[s], b) # isVisible[s]
            THEN EffectCommit(hookBound[s], hookBound[s], disconnectOnFirst(@, b))
            ELSE disconnectOnFirst(@, b)]
    /\ UNCHANGED <<isDarkMode, open, appMounted, hookBound>>
    /\ UNCHANGED <<chatVars, themeVars, modalVars, heroVars>>

\* Variant: the button switches dark mode on, setIsDarkMode(true)
ToggledToDark(mode) == TRUE

\* setIsDarkMode(!isDarkMode)
Toggled(mode) == ~mode

\* App re-renders and with it every section
toggleDarkMode ==
    /\ appMounted
    /\ isDarkMode' = Toggled(isDarkMode)
    /\ theme' = PersistTheme(Toggled(isDarkMode), theme)
    /\ hookObserving' = AppRender
    /\ UNCHANGED <<isVisible, open, appMounted, hookBound, savedMode>>
    /\ UNCHANGED <<chatVars, modalVars, heroVars>>

\* AboutSection: setOpen((v) => !v) re-renders the section
setOpen ==
    /\ appMounted
    /\ open' = ~open
    /\ hookObserving' = [hookObserving EXCEPT !["about"] =
            EffectCommit(hookBound["about"], hookBound["about"], @)]
    /\ UNCHANGED <<isVisible, isDarkMode, appMounted, hookBound>>
    /\ UNCHANGED <<chatVars, themeVars, modalVars, heroVars>>

\* The App unmounts: the clean-up of every section's effect
AppUnmount ==
    /\ appMounted
    /\ appMounted' = FALSE
    /\ hookObserving' = [s \in Sections |->
            EffectCommit(hookBound[s], FALSE, hookObserving[s])]
    /\ UNCHANGED <<isVisible, isDarkMode, open, hookBound>>
    /\ UNCHANGED <<chatVars, themeVars, modalVars, heroVars>>

NextHook ==
    \/ \E s \in Sections, b \in BOOLEAN : HookCallback(s, b)
    \/ toggleDarkMode
    \/ setOpen
    \/ AppUnmount

SpecHook == Init /\ [][NextHook]_vars

----------------------------------------------------------------------------
(* The persisted theme (specification SpecTheme) *)

\* The page is loaded again: every component starts afresh, the isDarkMode
\* initializer reads localStorage once and the theme effect writes it back
Reload ==
    /\ savedMode' = theme
    /\ isDarkMode' = InitialMode(theme)
    /\ theme' = PersistTheme(InitialMode(theme), theme)
    /\ isVisible' = [s \in Sections |-> FALSE]
    /\ hookObserving' = [s \in Sections |-> EffectCommit(FALSE, hookBound[s], 0)]
    /\ open' = FALSE
    /\ appMounted' = TRUE
    /\ UNCHANGED hookBound
    /\ UNCHANGED <<chatVars, modalVars, heroVars>>

InitTheme ==
    /\ messages = SourceScript
    /\ InitComponents
    /\ \E stored \in StoredValues : StartTheme(stored)

NextTheme ==
    \/ toggleDarkMode
    \/ Reload
    \/ \E s \in Sections, b \in BOOLEAN : HookCallback(s, b)
    \/ setOpen

SpecTheme == InitTheme /\ [][NextTheme]_vars

\* C17: after mount and after every toggle the persisted flag names the
\* current mode; it is written by every toggle and is never anything but
\* 'dark' or 'light' once the app has mounted.
C17_ThemeFollowsMode ==
    /\ [](appMounted => ((isDarkMode /\ theme = "dark") \/ (~isDarkMode /\ theme = "light")))
    /\ [][(isDarkMode' # isDarkMode) =>
            ((isDarkMode' /\ theme' = "dark") \/ (~isDarkMode' /\ theme' = "light"))]_vars

\* C17 witness: the page started from an unknown stored value and was toggled
\* to dark
C17_Witness == appMounted /\ savedMode = "other" /\ isDarkMode /\ theme = "dark"

\* C18: at startup the mode is dark exactly when the stored flag is 'dark'
\* (an absent flag or any other value starts in light mode), and the stored
\* flag is read at startup only.
C18_StartupMode ==
    /\ (isDarkMode <=> savedMode = "dark")
    /\ [][Reload => (savedMode' = theme /\ (isDarkMode' <=> theme = "dark"))]_vars
    /\ [][(savedMode' # savedMode) => Reload]_vars

\* C18 witness: the page was loaded with a stored value that is neither
\* 'dark' nor 'light', started in light mode, and a section has since become
\* visible without the value being read again
C18_Witness ==
    /\ savedMode = "other" /\ ~isDarkMode /\ theme = "light"
    /\ isVisible["footer"]

\* C23: a reload restores the mode that was showing before it, whatever
\* toggles came before; every toggle flips the mode and flips the persisted
\* flag between 'dark' and 'light', so that two toggles in a row return both
\* to their previous values.
C23_RoundTrip ==
    /\ [][Reload => (isDarkMode' <=> isDarkMode)]_vars
    /\ [][toggleDarkMode =>
            /\ isDarkMode' = ~isDarkMode
            /\ theme' # theme
            /\ {theme, theme'} = {"dark", "light"}]_vars

\* C23 witness: the page started in light mode from a stored 'light', was
\* toggled to dark and persisted it; a reload from here reads 'dark'
C23_Witness ==
    /\ appMounted /\ savedMode = "light"
    /\ isDarkMode /\ theme = "dark" /\ open

----------------------------------------------------------------------------
(* The triggers and their elements (specification SpecBind) *)

\* A section renders with or without the element its targetRef is given to;
\* the render runs the effect again
SetTarget(s, b) ==
    /\ appMounted
    /\ hookBound' = [hookBound EXCEPT ![s] = b]
    /\ hookObserving' = [hookObserving EXCEPT ![s] = EffectCommit(hookBound[s], b, @)]
    /\ UNCHANGED <<isVisible, isDarkMode, open, appMounted>>
    /\ UNCHANGED <<chatVars, themeVars, modalVars, heroVars>>

\* React calls the local hook's ref callback with an element or with null
RefCallback(node) ==
    /\ mounted
    /\ observing' = refCallback(observing, node)
    /\ refNode' = IF node THEN "node" ELSE "null"
    /\ UNCHANGED <<messages, mounted, entry, hasBeenVisibleRef, visibleMessages,
                   typingIndex, timers, runs, clock>>
    /\ UNCHANGED chatRest

\* The triggers before any element is given to them; which sections render
\* their element is the caller's choice
InitBind ==
    /\ messages = SourceScript
    /\ InitState
    /\ StartTheme("absent")
    /\ refNode = "never"
    /\ observing = 0
    /\ hookBound \in [Sections -> BOOLEAN]
    /\ hookObserving = [s \in Sections |-> EffectCommit(FALSE, hookBound[s], 0)]

\* The timeouts of the chat playback leave both hooks' state alone (Spec)
NextBind ==
    \/ \E s \in Sections, b \in BOOLEAN : SetTarget(s, b)
    \/ \E s \in Sections, b \in BOOLEAN : HookCallback(s, b)
    \/ toggleDarkMode
    \/ AppUnmount
    \/ \E node \in BOOLEAN : RefCallback(node)
    \/ \E b \in BOOLEAN : ObserverCallback(b)
    \/ Unmount

SpecBind == InitBind /\ [][NextBind]_vars

\* C19: a trigger that is never given an element keeps isVisible false for
\* ever and never has a watcher observing nothing (observe is not called
\* without an element); this holds for the shared hook of every section and
\* for the local hook of the comparison section.
C19_UnboundStaysInvisible ==
    /\ \A s \in Sections :
          ([](~hookBound[s])) => [](~isVisible[s] /\ hookObserving[s] = 0)
    /\ [](\A s \in Sections : ~hookBound[s] => hookObserving[s] = 0)
    /\ [](refNode = "never" => (entry = <<>> /\ ~comparisonVisible /\ observing = 0))

\* C19 witness: one section without an element while another one, and the
\* comparison section, have theirs and have become visible
C19_Witness ==
    /\ appMounted /\ mounted
    /\ ~hookBound["about"] /\ ~isVisible["about"] /\ hookObserving["about"] = 0
    /\ hookBound["faq"] /\ isVisible["faq"]
    /\ refNode = "node" /\ comparisonVisible

\* C20: no trigger instance ever has more than one watcher attached: an
\* effect re-run, a change of element and an unbinding release the previous
\* watcher first.
C20_AtMostOneWatcher ==
    /\ \A s \in Sections : hookObserving[s] <= 1
    /\ observing <= 1

\* C20 witness: a section that became visible (its watcher disconnected),
\* rendered again and is watched by exactly one new watcher; another one that
\* lost its element after becoming visible; the local hook bound again after
\* an unbinding
C20_Witness ==
    /\ hookBound["about"] /\ isVisible["about"] /\ hookObserving["about"] = 1
    /\ ~hookBound["faq"] /\ isVisible["faq"] /\ hookObserving["faq"] = 0
    /\ isDarkMode
    /\ refNode = "node" /\ entry # <<>> /\ observing = 1

----------------------------------------------------------------------------
(* The lead forms *)

\* Values a text field can hold: empty or some text
FieldValues == {"", "a"}

\* pricingPlans: the names of the plans
Plans == {"Starter", "Growth", "Plus", "Premium"}

\* What the server or the network answers to a request: a 2xx response, a
\* non-2xx response with a JSON body, a non-2xx response whose body is not
\* JSON, or a transport error (fetch rejects)
Outcomes == {"ok", "notOk", "notOkBadJson", "networkError"}

ModalSuccess == "Thank you! Your request has been submitted."
ModalFailed == "Failed to submit. Please try again."
ModalError == "An error occurred. Please try again later."

HeroSuccess == "Message sent successfully!"
HeroFailed == "Failed to send message. Please try again."
HeroError == "An error occurred. Please try again later."
HeroEmpty == "Please enter your email address."

\* handlePlanSelect; the pricing cards are covered by the modal while it is open
handlePlanSelect(plan) ==
    /\ appMounted
    /\ ~isModalOpen
    /\ selectedPlan' = plan
    /\ formData' = [formData EXCEPT !.plan = plan]
    /\ isModalOpen' = TRUE
    /\ submitSuccess' = ""
    /\ hookObserving' = AppRender
    /\ UNCHANGED <<isSubmitting, modalRequests>>
    /\ UNCHANGED <<isVisible, isDarkMode, open, appMounted, hookBound>>
    /\ UNCHANGED <<chatVars, themeVars, heroVars>>

\* onChange of the name, email and mobile inputs; the form is rendered only
\* while no status message is shown
EditField(f, v) ==
    /\ appMounted
    /\ isModalOpen
    /\ submitSuccess = ""
    /\ formData[f] # v
    /\ formData' = [formData EXCEPT ![f] = v]
    /\ hookObserving' = AppRender
    /\ UNCHANGED <<isModalOpen, selectedPlan, isSubmitting, submitSuccess, modalRequests>>
    /\ UNCHANGED <<isVisible, isDarkMode, open, appMounted, hookBound>>
    /\ UNCHANGED <<chatVars, themeVars, heroVars>>

\* Variant: the submit button without disabled={isSubmitting}
SubmitEnabledAlways(submitting) == TRUE

\* disabled={isSubmitting} on the submit button
SubmitEnabled(submitting) == ~submitting

\* body of the modal form's request
ModalBody(fd) ==
    [userEmail |-> fd.email, name |-> fd.name, mobile |-> fd.mobile, plan |-> fd.plan]

\* handleFormSubmit up to the fetch call; the browser submits only when the
\* required inputs are filled
handleFormSubmit ==
    /\ appMounted
    /\ isModalOpen
    /\ submitSuccess = ""
    /\ SubmitEnabled(isSubmitting)
    /\ formData.name # "" /\ formData.email # "" /\ formData.mobile # ""
    /\ Len(modalRequests) < MaxInFlight
    /\ isSubmitting' = TRUE
    /\ submitSuccess' = ""
    /\ modalRequests' = Append(modalRequests, ModalBody(formData))
    /\ hookObserving' = AppRender
    /\ UNCHANGED <<isModalOpen, selectedPlan, formData>>
    /\ UNCHANGED <<isVisible, isDarkMode, open, appMounted, hookBound>>
    /\ UNCHANGED <<chatVars, themeVars, heroVars>>

\* onClose through the close button or the Cancel button
CloseModal ==
    /\ appMounted
    /\ isModalOpen
    /\ isModalOpen' = FALSE
    /\ hookObserving' = AppRender
    /\ UNCHANGED <<selectedPlan, formData, isSubmitting, submitSuccess, modalRequests>>
    /\ UNCHANGED <<isVisible, isDarkMode, open, appMounted, hookBound>>
    /\ UNCHANGED <<chatVars, themeVars, heroVars>>

\* handleBackdropClick: onClose unless a submission is in progress
handleBackdropClick ==
    /\ appMounted
    /\ isModalOpen
    /\ ~isSubmitting
    /\ isModalOpen' = FALSE
    /\ hookObserving' = AppRender
    /\ UNCHANGED <<selectedPlan, formData, isSubmitting, submitSuccess, modalRequests>>
    /\ UNCHANGED <<isVisible, isDarkMode, open, appMounted, hookBound>>
    /\ UNCHANGED <<chatVars, themeVars, heroVars>>

\* Status the modal form's then/catch handlers set
ModalStatus(outcome) ==
    IF outcome = "networkError" THEN ModalError
    ELSE IF outcome = "ok" THEN ModalSuccess
    ELSE ModalFailed

\* isSubmitting after the finally handler
ModalSubmittingAfter(outcome, submitting) == FALSE

\* Variant: every handler resets the form, the failure handlers included
ModalFormAfterAlwaysReset(outcome, fd) == EmptyForm

\* formData after the then/catch handlers: only the ok branch calls setFormData
ModalFormAfter(outcome, fd) == IF outcome = "ok" THEN EmptyForm ELSE fd

\* Variant: the ok branch without setSelectedPlan(null)
ModalPlanAfterKept(outcome, plan) == plan

\* selectedPlan after the then/catch handlers: only the ok branch resets it
ModalPlanAfter(outcome, plan) == IF outcome = "ok" THEN "null" ELSE plan

\* The then/catch/finally handlers of handleFormSubmit for request i
ModalResponse(i, outcome) ==
    /\ i \in 1..Len(modalRequests)
    /\ modalRequests' = RemoveAt(modalRequests, i)
    /\ submitSuccess' = ModalStatus(outcome)
    /\ formData' = ModalFormAfter(outcome, formData)
    /\ selectedPlan' = ModalPlanAfter(outcome, selectedPlan)
    /\ isSubmitting' = ModalSubmittingAfter(outcome, isSubmitting)
    /\ hookObserving' = AppRender
    /\ UNCHANGED isModalOpen
    /\ UNCHANGED <<isVisible, isDarkMode, open, appMounted, hookBound>>
    /\ UNCHANGED <<chatVars, themeVars, heroVars>>

\* onChange of the hero form's input
setEmail(v) ==
    /\ email # v
    /\ email' = v
    /\ UNCHANGED <<status, isLoading, showInput, heroRequests>>
    /\ UNCHANGED <<chatVars, hookVars, themeVars, modalVars>>

\* Variant: handleContactUs without its check of the email
EmailMissingIgnored(e) == FALSE

\* if (!email)
EmailMissing(e) == e = ""

\* onClick of the Contact Us button: the first click expands the input, the
\* later ones call handleContactUs
ContactUsClick ==
    /\ IF ~showInput
       THEN /\ showInput' = TRUE
            /\ UNCHANGED <<email, status, isLoading, heroRequests>>
       ELSE IF EmailMissing(email)
       THEN /\ status' = HeroEmpty
            /\ UNCHANGED <<email, isLoading, showInput, heroRequests>>
       ELSE /\ Len(heroRequests) < MaxInFlight
            /\ isLoading' = TRUE
            /\ heroRequests' = Append(heroRequests, [userEmail |-> email])
            /\ UNCHANGED <<email, status, showInput>>
    /\ UNCHANGED <<chatVars, hookVars, themeVars, modalVars>>

\* Variant: without the catch handler a rejected response.json() leaves the
\* status as it was
HeroStatusNoCatch(outcome, prev) ==
    IF outcome = "ok" THEN HeroSuccess
    ELSE IF outcome = "notOk" THEN HeroFailed
    ELSE IF outcome = "notOkBadJson" THEN prev
    ELSE HeroError

\* Status the hero form's then/catch handlers set: a non-2xx response whose
\* body is not JSON makes response.json() reject, which the catch handler takes
HeroStatus(outcome, prev) ==
    IF outcome = "ok" THEN HeroSuccess
    ELSE IF outcome = "notOk" THEN HeroFailed
    ELSE HeroError

\* Variant: setIsLoading(false) at the end of the then handler only
HeroLoadingAfterThenOnly(outcome, loading) ==
    IF outcome \in {"ok", "notOk"} THEN FALSE ELSE loading

\* isLoading after the finally handler
HeroLoadingAfter(outcome, loading) == FALSE

\* The then/catch/finally handlers of handleContactUs for request i
HeroResponse(i, outcome) ==
    /\ i \in 1..Len(heroRequests)
    /\ heroRequests' = RemoveAt(heroRequests, i)
    /\ status' = HeroStatus(outcome, status)
    /\ email' = IF outcome = "ok" THEN "" ELSE email
    /\ isLoading' = HeroLoadingAfter(outcome, isLoading)
    /\ UNCHANGED showInput
    /\ UNCHANGED <<chatVars, hookVars, themeVars, modalVars>>

NextForms ==
    \/ \E plan \in Plans : handlePlanSelect(plan)
    \/ \E f \in {"name", "email", "mobile"}, v \in FieldValues : EditField(f, v)
    \/ handleFormSubmit
    \/ CloseModal
    \/ handleBackdropClick
    \/ \E i \in 1..MaxInFlight, o \in Outcomes : ModalResponse(i, o)
    \/ \E v \in FieldValues : setEmail(v)
    \/ ContactUsClick
    \/ \E i \in 1..MaxInFlight, o \in Outcomes : HeroResponse(i, o)

SpecForms == InitPage /\ [][NextForms]_vars

----------------------------------------------------------------------------
(* Properties of the lead forms (specification SpecForms) *)

RequestIndices == 1..(MaxInFlight + 1)

ModalFailures == {ModalFailed, ModalError}
HeroFailures == {HeroFailed, HeroError}

\* C13: the plan-selection modal never has more than one request in flight,
\* whatever the submit clicks, closes, cancels and plan selections.
C13_ModalSingleRequest == Len(modalRequests) <= 1

\* C13 witness: a request is in flight while the modal, closed and opened
\* again for another plan, shows a filled form
C13_Witness ==
    /\ Len(modalRequests) = 1
    /\ isModalOpen /\ submitSuccess = ""
    /\ formData.name # "" /\ formData.email # "" /\ formData.mobile # ""
    /\ formData.plan # modalRequests[1].plan

\* C14: the hero contact form never has more than one request in flight.
C14_HeroSingleRequest == Len(heroRequests) <= 1

C16_SuccessIffOk ==
    [][\A i \in RequestIndices, o \in Outcomes :
          /\ ModalResponse(i, o) =>
                /\ (submitSuccess' = ModalSuccess) <=> (o = "ok")
                /\ (o # "ok") => submitSuccess' \in ModalFailures
          /\ HeroResponse(i, o) =>
                /\ (status' = HeroSuccess) <=> (o = "ok")
                /\ (o # "ok") => status' \in HeroFailures]_vars

\* C16 witness: the hero form shows its success message, the modal a failure
C16_Witness ==
    /\ status = HeroSuccess /\ email = ""
    /\ submitSuccess = ModalError
    /\ modalRequests = <<>> /\ heroRequests = <<>>

\* C25: when a modal request fails (non-2xx response or transport error) the
\* handlers leave formData and selectedPlan as they are; a 2xx response sets
\* formData to empty fields and selectedPlan to null, and no other step empties
\* the form or sets selectedPlan to null.
C25_FailureKeepsForm ==
    /\ [][\A i \in RequestIndices, o \in Outcomes :
            ModalResponse(i, o) =>
                IF o = "ok"
                THEN formData' = EmptyForm /\ selectedPlan' = "null"
                ELSE formData' = formData /\ selectedPlan' = selectedPlan]_vars
    /\ [][((selectedPlan # "null" /\ selectedPlan' = "null")
                \/ (formData # EmptyForm /\ formData' = EmptyForm))
           => \E i \in RequestIndices : ModalResponse(i, "ok")]_vars

\* C25 witness: a submission failed and the modal still holds the filled
\* form and the plan it was issued with
C25_Witness ==
    /\ submitSuccess \in ModalFailures /\ modalRequests = <<>>
    /\ selectedPlan = "Growth" /\ formData.plan = "Growth"
    /\ formData.name # "" /\ formData.email # "" /\ formData.mobile # ""

\* C26: formData.plan is the name of the selected plan, and the empty string
\* when no plan is selected, in every reachable state.
C26_PlanMatchesSelection ==
    IF selectedPlan = "null" THEN formData.plan = "" ELSE formData.plan = selectedPlan

\* C26 witness: a submission succeeded and reset both the plan and the form
C26_Witness ==
    /\ isModalOpen /\ submitSuccess = ModalSuccess
    /\ selectedPlan = "null" /\ formData = EmptyForm
    /\ ~isSubmitting /\ modalRequests = <<>>

\* C27: a 2xx response to a request issued for one plan leaves the form
\* alone when another plan has been selected in the meantime.
C27_LateResponseKeepsNewForm ==
    [][\A i \in RequestIndices :
          (ModalResponse(i, "ok") /\ selectedPlan # "null"
             /\ modalRequests[i].plan # selectedPlan)
          => (selectedPlan' = selectedPlan /\ formData' = formData)]_vars

\* C28: while isSubmitting is true no step closes the modal.
C28_OpenWhileSubmitting ==
    [][(isSubmitting /\ isModalOpen) => isModalOpen']_vars

\* C29: a request is issued only from the expanded form with a non-empty
\* email; a click on the expanded form with an empty email sets the status
\* to the 'Please enter' message and changes nothing else; the click that
\* expands the form changes nothing else.
C29_EmptyEmailRejected ==
    /\ [][Len(heroRequests') > Len(heroRequests) => (showInput /\ email # "")]_vars
    /\ [][(ContactUsClick /\ showInput /\ email = "") =>
            /\ status' = HeroEmpty
            /\ UNCHANGED <<email, isLoading, showInput, heroRequests>>]_vars
    /\ [][(~showInput /\ showInput') =>
            UNCHANGED <<email, status, isLoading, heroRequests>>]_vars

\* C29 witness: the email was emptied while a request is in flight and the
\* button clicked: the message is shown, the request and isLoading are as
\* they were
C29_Witness ==
    /\ showInput /\ email = "" /\ status = HeroEmpty
    /\ isLoading /\ Len(heroRequests) = 1

----------------------------------------------------------------------------
(* Properties of the shared hook (specification SpecHook) *)

\* C9: isVisible of a section never changes from true to false (and so
\* changes from false to true at most once), whatever the notifications,
\* re-renders and clean-ups.
C9_VisibleIsSticky == [][\A s \in Sections : isVisible[s] => isVisible'[s]]_vars

\* C9 witness: a section that is visible and whose re-created watcher is attached,
\* so that a non-intersecting entry can still be delivered
C9_Witness == appMounted /\ isVisible["about"] /\ hookObserving["about"] > 0

\* C10: once isVisible is true no watcher is observing the element any more.
C10_ReleasedAfterFirst == \A s \in Sections : isVisible[s] => hookObserving[s] = 0

====
